---- MODULE Spec2Model ----
(***************************************************************************)
(* Best-first enumeration of peptide sequences over a position-specific   *)
(* scoring matrix (peptide_search/tools/sequence.py).                      *)
(*                                                                         *)
(* Numbers.  A matrix entry is a positive real; the model keeps the        *)
(* entries that are powers of two and stores the exponent, so pssm[r][c]   *)
(* = e stands for the entry 2^e and np.log2(np.prod(vals)) is exactly the  *)
(* sum of the exponents (Log2Prod).  Every such matrix is strictly         *)
(* positive.  Python tuples and numpy arrays are 0-based, so are the       *)
(* functions of the model.                                                 *)
(***************************************************************************)
EXTENDS Integers, Sequences, FiniteSets, Bags, TLC

VARIABLES
    pssm,        \* the score matrix: row -> column -> exponent of the entry
    aminoacids,  \* the alphabet: row -> symbol
    argsort,     \* pssm.argsort(axis=0): rank -> column -> row, ascending
    descending,  \* per generator instance: the direction argument
    pc,          \* per instance: "created", "loop", "yielded", "done", or
                 \* the exception the generator ended in
    pq,          \* per instance: the heap, a bag of (score, seq, indices)
    visited,     \* per instance: the visited set
    cur,         \* per instance: the node popped last (score, seq, indices)
    fresh,       \* per instance: the index vectors pushed by the last expansion
    out,         \* per instance: the strings yielded so far, in order
    pushed,      \* history: per instance, bag of index vectors pushed
    popped,      \* history: per instance, index vectors popped, in order
    rpc,         \* get_pssm_range: "idle", "max", "min", "score", then "returned"
                 \* or the exception it ended in
    rres,        \* get_pssm_range: <<>>, or the pair returned
    sequence,    \* is_valid_sequence, get_sequence_score: the argument
    verdict,     \* is_valid_sequence: <<>>, or <<the value returned>>
    scored       \* get_sequence_score: <<>>, <<"called">>, then
                 \* <<"returned", score>> or <<the exception it ended in>>

vars == <<pssm, aminoacids, argsort, descending, pc, pq, visited, cur, fresh,
          out, pushed, popped, rpc, rres, sequence, verdict, scored>>

inputVars == <<pssm, aminoacids, argsort, descending>>
genVars == <<pc, pq, visited, cur, fresh, out, pushed, popped>>
rangeVars == <<rpc, rres>>
validVars == <<sequence, verdict>>
scoreVars == <<scored>>

----------------------------------------------------------------------------
(* Bounds of the model *)

\* largest exponent of the perturbed matrix entry
MaxExp == 2
\* pops per instance when two instances are interleaved
MaxPops == 4
\* positions of a validator input that differ from the base sequence
MaxEdits == 3

(* Program constants *)

\* the matrix has the ten columns '-5' .. '4'
c_size == 10
\* the column forced to "S", never incremented
Center == 5
\* the only length is_valid_sequence accepts
ValidLen == 10

Gens == {1, 2}
Cols == 0 .. (c_size - 1)

Last(s) == s[Len(s)]

\* a Python tuple / list: 0-based
Tup(s) == [i \in 0 .. (Len(s) - 1) |-> s[i + 1]]
TLen(t) == Cardinality(DOMAIN t)

----------------------------------------------------------------------------
(* is_valid_sequence *)

\* x in s
Contains(s, x) == \E i \in DOMAIN s : s[i] = x

\* s[lo:hi], re-based at 0; Python clips the slice to the sequence
Slice(s, lo, hi) ==
    LET h == IF hi < TLen(s) THEN hi ELSE TLen(s)
        n == IF h > lo THEN h - lo ELSE 0
    IN  [i \in 0 .. (n - 1) |-> s[lo + i]]

\* is_valid_sequence with the window s[4:6] for s[4:7]
is_valid_sequence_KWindow(s) ==
    IF Contains(s, "C") THEN FALSE
    ELSE IF TLen(s) # ValidLen \/ s[Center] # "S"
                \/ Contains(Slice(s, 4, 6), "K") THEN FALSE
    ELSE LET first_half == Slice(s, 0, 5)
             second_half == Slice(s, 6, TLen(s))
         IN  IF (Contains(first_half, "K") \/ Contains(first_half, "R"))
                 /\ (Contains(second_half, "K") \/ Contains(second_half, "R"))
             THEN FALSE
             ELSE TRUE

is_valid_sequence(s) ==
    IF Contains(s, "C") THEN FALSE
    ELSE IF TLen(s) # ValidLen \/ s[Center] # "S"
                \/ Contains(Slice(s, 4, 7), "K") THEN FALSE
    ELSE LET first_half == Slice(s, 0, 5)
             second_half == Slice(s, 6, TLen(s))
         IN  IF (Contains(first_half, "K") \/ Contains(first_half, "R"))
                 /\ (Contains(second_half, "K") \/ Contains(second_half, "R"))
             THEN FALSE
             ELSE TRUE

----------------------------------------------------------------------------
(* Scores *)

r_size == Cardinality(DOMAIN pssm)
Rows == 0 .. (r_size - 1)

RECURSIVE SumTo(_, _)
SumTo(f, n) == IF n < 0 THEN 0 ELSE f[n] + SumTo(f, n - 1)

\* np.log2(np.prod(vals)) for entries 2^vals[c]
Log2Prod(vals) == SumTo(vals, TLen(vals) - 1)

\* aminoacids.tolist().index(c): the first row holding c
IndexOf(c) ==
    CHOOSE i \in DOMAIN aminoacids :
        aminoacids[i] = c /\ \A j \in DOMAIN aminoacids : aminoacids[j] = c => i <= j

\* the exception get_sequence_score ends in, or "none".  index raises
\* ValueError on a symbol the alphabet lacks; pssm[indices, range(c_size)]
\* broadcasts a one-element index list, rejects any other length than c_size
\* and rejects the index of a row the matrix lacks.
ScoreRaises(s) ==
    IF \E i \in DOMAIN s : ~Contains(aminoacids, s[i]) THEN "ValueError"
    ELSE IF TLen(s) # c_size /\ TLen(s) # 1 THEN "IndexError"
    ELSE IF \E i \in DOMAIN s : IndexOf(s[i]) \notin DOMAIN pssm THEN "IndexError"
    ELSE "none"

\* get_sequence_score: the score, or the exception it ends in
get_sequence_score(s) ==
    IF ScoreRaises(s) # "none" THEN ScoreRaises(s)
    ELSE Log2Prod([c \in Cols |->
                     pssm[IndexOf(s[IF TLen(s) = 1 THEN 0 ELSE c])][c]])

----------------------------------------------------------------------------
(* greedy_pssm_generator: the pure parts *)

\* np.flip(pssm.argsort(axis=0), axis=0) when descending
greedy_sort(desc) ==
    IF desc THEN [k \in Rows |-> argsort[r_size - 1 - k]] ELSE argsort

\* greedy_sort[indices, cols]
RowsOf(desc, indices) ==
    LET gs == greedy_sort(desc)
    IN  [c \in Cols |-> gs[indices[c]][c]]

\* [aminoacids[i] for i in pssm_indices] raises IndexError on a row the
\* alphabet lacks, the center column's included
SeqRaises(pssm_indices) ==
    \E c \in Cols : pssm_indices[c] \notin DOMAIN aminoacids

\* SeqOf without the override of lines 72 and 97
SeqOf_NoOverride(pssm_indices) ==
    [c \in Cols |-> aminoacids[pssm_indices[c]]]

\* [aminoacids[i] for i in pssm_indices], then seq[5] = "S"
SeqOf(pssm_indices) ==
    [c \in Cols |-> IF c = Center THEN "S" ELSE aminoacids[pssm_indices[c]]]

\* ScoreOf without the negation of lines 74-75 and 99-100
ScoreOf_NoNegate(desc, pssm_indices) ==
    Log2Prod([c \in Cols |-> pssm[pssm_indices[c]][c]])

\* np.log2(np.prod(pssm[pssm_indices, cols])), negated when descending
ScoreOf(desc, pssm_indices) ==
    LET s == Log2Prod([c \in Cols |-> pssm[pssm_indices[c]][c]])
    IN  IF desc THEN 0 - s ELSE s

\* the items of a state tuple
ScoreIn(n) == n[1]
SeqIn(n) == n[2]
IndicesIn(n) == n[3]

\* the state tuple (score, tuple(seq), tuple(indices))
NodeOf(desc, indices) ==
    LET pssm_indices == RowsOf(desc, indices)
    IN  <<ScoreOf(desc, pssm_indices), SeqOf(pssm_indices), indices>>

initial_indices == [c \in Cols |-> 0]

\* what the visited set is seeded with: tuple(pssm_indices), the row indices of
\* the root, not its rank vector
VisitedSeed(desc) == {RowsOf(desc, initial_indices)}

\* the code point of a symbol: Python orders strings by code point
Ord(x) ==
    CASE x = "A" -> 65 [] x = "C" -> 67 [] x = "K" -> 75
      [] x = "R" -> 82 [] x = "S" -> 83

\* a < b for two tuples of symbols, from item i on: the first differing item
\* decides, and a proper prefix is the smaller
RECURSIVE SeqLessFrom(_, _, _)
SeqLessFrom(a, b, i) ==
    IF i \notin DOMAIN b THEN FALSE
    ELSE IF i \notin DOMAIN a THEN TRUE
    ELSE IF a[i] = b[i] THEN SeqLessFrom(a, b, i + 1)
    ELSE Ord(a[i]) < Ord(b[i])

SeqLess(a, b) == SeqLessFrom(a, b, 0)

\* a < b for two tuples of integers, from item i on
RECURSIVE IdxLessFrom(_, _, _)
IdxLessFrom(a, b, i) ==
    IF i \notin DOMAIN b THEN FALSE
    ELSE IF i \notin DOMAIN a THEN TRUE
    ELSE IF a[i] = b[i] THEN IdxLessFrom(a, b, i + 1)
    ELSE a[i] < b[i]

IdxLess(a, b) == IdxLessFrom(a, b, 0)

\* KeyLess on the score alone
KeyLess_ScoreOnly(n, m) == ScoreIn(n) < ScoreIn(m)

\* n < m for two heap entries: Python compares the tuples item by item
KeyLess(n, m) ==
    \/ ScoreIn(n) < ScoreIn(m)
    \/ /\ ScoreIn(n) = ScoreIn(m)
       /\ \/ SeqLess(SeqIn(n), SeqIn(m))
          \/ SeqIn(n) = SeqIn(m) /\ IdxLess(IndicesIn(n), IndicesIn(m))

\* heappop returns an entry no other entry is smaller than
IsHeapMin(n, entries) == \A m \in entries : ~KeyLess(m, n)

\* the entries heappop may return
HeapMins(q) ==
    LET entries == BagToSet(q)
    IN  {n \in entries : IsHeapMin(n, entries)}

\* IsVisited without the visited set
IsVisited_Never(v, indices) == FALSE

\* the test of line 92
IsVisited(v, indices) == indices \in v

\* Neighbors without the skip of the center column (lines 86-87)
Neighbors_WithCenter(v, indices) ==
    {new_indices \in {[indices EXCEPT ![col] = @ + 1] :
                        col \in {c \in Cols : indices[c] + 1 < r_size}} :
        ~IsVisited(v, new_indices)}

\* the for loop of lines 85-103 on popped index vector `indices` with visited
\* set v: the index vectors it pushes.  The ten columns give ten different
\* vectors, so marking them one by one or together is the same.
Neighbors(v, indices) ==
    {new_indices \in {[indices EXCEPT ![col] = @ + 1] :
                        col \in {c \in Cols : c # Center /\ indices[c] + 1 < r_size}} :
        ~IsVisited(v, new_indices)}

\* the columns whose neighbor of `indices` passes the test of line 92 and then
\* raises at line 96
RaisingCols(v, desc, indices) ==
    {col \in Cols :
        /\ col # Center /\ indices[col] + 1 < r_size
        /\ LET new_indices == [indices EXCEPT ![col] = @ + 1]
           IN  ~IsVisited(v, new_indices) /\ SeqRaises(RowsOf(desc, new_indices))}

\* the column at which the for loop ends in IndexError: the first one
StopCol(v, desc, indices) ==
    CHOOSE col \in RaisingCols(v, desc, indices) :
        \A d \in RaisingCols(v, desc, indices) : col <= d

\* the index vectors the for loop pushes before it ends at column stop
NeighborsBefore(v, indices, stop) ==
    {new_indices \in Neighbors(v, indices) :
        \E col \in Cols : col < stop /\ new_indices[col] # indices[col]}

----------------------------------------------------------------------------
(* Inputs *)

\* column weights of the base matrix: sums of different columns sometimes tie
W(c) == Tup(<<1, 2, 4, 8, 1, 1, 16, 32, 3, 5>>)[c]

\* the columns whose last-row entry is perturbed
KCols == {4, Center}

\* r rows; row i of column c holds (r-1-i) * W(c), but the last row holds d in
\* column k
Matrix(r, k, d) ==
    [i \in 0 .. (r - 1) |->
        [c \in Cols |-> IF i = r - 1 /\ c = k THEN d ELSE (r - 1 - i) * W(c)]]

Matrices(r) == {Matrix(r, k, d) : k \in KCols, d \in 0 .. MaxExp}

\* the orders argsort may give column c
ColSorts(m, c) ==
    {p \in [DOMAIN m -> DOMAIN m] :
        /\ \A r \in DOMAIN m : \E k \in DOMAIN m : p[k] = r
        /\ \A k \in DOMAIN m : k + 1 \in DOMAIN m => m[p[k]][c] <= m[p[k + 1]][c]}

\* columns c and d of m hold the same values
SameColumn(m, c, d) == \A r \in DOMAIN m : m[r][c] = m[r][d]

\* the results argsort may give on columns 0 .. c, as column -> rank -> row.
\* Each column is sorted by the same procedure, so two columns with the same
\* values get the same order.
RECURSIVE ColSortsUpTo(_, _)
ColSortsUpTo(m, c) ==
    IF c < 0 THEN {<<>>}
    ELSE {[j \in 0 .. c |-> IF j = c THEN x[2] ELSE x[1][j]] :
            x \in {y \in ColSortsUpTo(m, c - 1) \X ColSorts(m, c) :
                     \A j \in 0 .. (c - 1) : SameColumn(m, j, c) => y[1][j] = y[2]}}

Argsorts(m) ==
    {[k \in DOMAIN m |-> [c \in Cols |-> f[c][k]]] : f \in ColSortsUpTo(m, c_size - 1)}

EnumAlphabets == {Tup(<<"A", "S">>), Tup(<<"S", "K">>), Tup(<<"A", "K">>)}

InputInit(alphabets) ==
    /\ aminoacids \in alphabets
    /\ pssm \in Matrices(TLen(aminoacids))
    /\ argsort \in Argsorts(pssm)

NoNode == <<0, <<>>, <<>>>>

GenInit ==
    /\ pc = [g \in Gens |-> "created"]
    /\ pq = [g \in Gens |-> EmptyBag]
    /\ visited = [g \in Gens |-> {}]
    /\ cur = [g \in Gens |-> NoNode]
    /\ fresh = [g \in Gens |-> {}]
    /\ out = [g \in Gens |-> <<>>]
    /\ pushed = [g \in Gens |-> EmptyBag]
    /\ popped = [g \in Gens |-> <<>>]

RangeIdle == rpc = "idle" /\ rres = <<>>
ValidIdle == sequence = <<>> /\ verdict = <<>>
ScoreIdle == scored = <<>>

----------------------------------------------------------------------------
(* greedy_pssm_generator: the steps of one instance g *)

\* lines 85-103, on the node popped last
Expand(g) ==
    LET new == Neighbors(visited[g], IndicesIn(cur[g]))
    IN  /\ RaisingCols(visited[g], descending[g], IndicesIn(cur[g])) = {}
        /\ visited' = [visited EXCEPT ![g] = @ \cup new]
        /\ pq' = [pq EXCEPT
                    ![g] = @ (+) SetToBag({NodeOf(descending[g], i) : i \in new})]
        /\ pushed' = [pushed EXCEPT ![g] = @ (+) SetToBag(new)]
        /\ fresh' = [fresh EXCEPT ![g] = new]

\* lines 85-103 on index vector `indices`, ended by IndexError at line 96: the
\* vector of the raising column is already in visited (line 93), the vectors
\* of the columns before it are pushed
ExpandRaises(g, indices) ==
    LET stop == StopCol(visited[g], descending[g], indices)
        new == NeighborsBefore(visited[g], indices, stop)
    IN  /\ RaisingCols(visited[g], descending[g], indices) # {}
        /\ visited' = [visited EXCEPT
                         ![g] = @ \cup new \cup {[indices EXCEPT ![stop] = @ + 1]}]
        /\ pq' = [pq EXCEPT
                    ![g] = @ (+) SetToBag({NodeOf(descending[g], i) : i \in new})]
        /\ pushed' = [pushed EXCEPT ![g] = @ (+) SetToBag(new)]
        /\ fresh' = [fresh EXCEPT ![g] = new]
        /\ pc' = [pc EXCEPT ![g] = "IndexError"]

\* the first next() ended by IndexError at line 71: no queue yet
StartRaises(g) ==
    /\ pc[g] = "created"
    /\ SeqRaises(RowsOf(descending[g], initial_indices))
    /\ pc' = [pc EXCEPT ![g] = "IndexError"]
    /\ UNCHANGED <<pq, visited, cur, fresh, out, pushed, popped>>

\* Start with one visited set for all instances (a set created once, not per
\* call)
Start_SharedVisited(g) ==
    /\ pc[g] = "created"
    /\ ~SeqRaises(RowsOf(descending[g], initial_indices))
    /\ pq' = [pq EXCEPT
                ![g] = SetToBag({NodeOf(descending[g], initial_indices)})]
    /\ visited' = [h \in Gens |-> VisitedSeed(descending[g])]
    /\ pushed' = [pushed EXCEPT ![g] = SetToBag({initial_indices})]
    /\ pc' = [pc EXCEPT ![g] = "loop"]
    /\ UNCHANGED <<cur, fresh, out, popped>>

\* the first next(): lines 61-79, up to the loop
Start(g) ==
    /\ pc[g] = "created"
    /\ ~SeqRaises(RowsOf(descending[g], initial_indices))
    /\ pq' = [pq EXCEPT
                ![g] = SetToBag({NodeOf(descending[g], initial_indices)})]
    /\ visited' = [visited EXCEPT ![g] = VisitedSeed(descending[g])]
    /\ pushed' = [pushed EXCEPT ![g] = SetToBag({initial_indices})]
    /\ pc' = [pc EXCEPT ![g] = "loop"]
    /\ UNCHANGED <<cur, fresh, out, popped>>

\* PopYield with the entry read but left on the heap (pq[0] for heappop)
PopYield_Peek(g) ==
    /\ pc[g] = "loop"
    /\ \E n \in HeapMins(pq[g]) :
         /\ is_valid_sequence(SeqIn(n))
         /\ cur' = [cur EXCEPT ![g] = n]
         /\ popped' = [popped EXCEPT ![g] = Append(@, IndicesIn(n))]
         /\ out' = [out EXCEPT ![g] = Append(@, SeqIn(n))]
    /\ pc' = [pc EXCEPT ![g] = "yielded"]
    /\ UNCHANGED <<pq, visited, pushed, fresh>>

\* lines 81-84: heappop an entry that passes is_valid_sequence; the generator
\* yields it and is suspended before the for loop
PopYield(g) ==
    /\ pc[g] = "loop"
    /\ \E n \in HeapMins(pq[g]) :
         /\ is_valid_sequence(SeqIn(n))
         /\ pq' = [pq EXCEPT ![g] = @ (-) SetToBag({n})]
         /\ cur' = [cur EXCEPT ![g] = n]
         /\ popped' = [popped EXCEPT ![g] = Append(@, IndicesIn(n))]
         /\ out' = [out EXCEPT ![g] = Append(@, SeqIn(n))]
    /\ pc' = [pc EXCEPT ![g] = "yielded"]
    /\ UNCHANGED <<visited, pushed, fresh>>

\* PopSkip with the for loop skipped for an entry that fails is_valid_sequence
PopSkip_NoExpand(g) ==
    /\ pc[g] = "loop"
    /\ \E n \in HeapMins(pq[g]) :
         /\ ~is_valid_sequence(SeqIn(n))
         /\ pq' = [pq EXCEPT ![g] = @ (-) SetToBag({n})]
         /\ cur' = [cur EXCEPT ![g] = n]
         /\ popped' = [popped EXCEPT ![g] = Append(@, IndicesIn(n))]
    /\ fresh' = [fresh EXCEPT ![g] = {}]
    /\ UNCHANGED <<pc, out, visited, pushed>>

\* lines 81-103: heappop an entry that fails is_valid_sequence: nothing is
\* yielded, the for loop runs, and the while loop goes round
PopSkip(g) ==
    /\ pc[g] = "loop"
    /\ \E n \in HeapMins(pq[g]) :
         /\ ~is_valid_sequence(SeqIn(n))
         /\ RaisingCols(visited[g], descending[g], IndicesIn(n)) = {}
         /\ LET new == Neighbors(visited[g], IndicesIn(n))
            IN  /\ visited' = [visited EXCEPT ![g] = @ \cup new]
                /\ pq' = [pq EXCEPT
                            ![g] = (@ (-) SetToBag({n}))
                                   (+) SetToBag({NodeOf(descending[g], i) : i \in new})]
                /\ pushed' = [pushed EXCEPT ![g] = @ (+) SetToBag(new)]
                /\ fresh' = [fresh EXCEPT ![g] = new]
         /\ cur' = [cur EXCEPT ![g] = n]
         /\ popped' = [popped EXCEPT ![g] = Append(@, IndicesIn(n))]
    /\ UNCHANGED <<pc, out>>

\* PopSkip whose for loop ends in IndexError
PopSkipRaises(g) ==
    /\ pc[g] = "loop"
    /\ \E n \in HeapMins(pq[g]) :
         /\ ~is_valid_sequence(SeqIn(n))
         /\ LET stop == StopCol(visited[g], descending[g], IndicesIn(n))
                new == NeighborsBefore(visited[g], IndicesIn(n), stop)
            IN  /\ RaisingCols(visited[g], descending[g], IndicesIn(n)) # {}
                /\ visited' = [visited EXCEPT
                      ![g] = @ \cup new \cup {[IndicesIn(n) EXCEPT ![stop] = @ + 1]}]
                /\ pq' = [pq EXCEPT
                            ![g] = (@ (-) SetToBag({n}))
                                   (+) SetToBag({NodeOf(descending[g], i) : i \in new})]
                /\ pushed' = [pushed EXCEPT ![g] = @ (+) SetToBag(new)]
                /\ fresh' = [fresh EXCEPT ![g] = new]
         /\ cur' = [cur EXCEPT ![g] = n]
         /\ popped' = [popped EXCEPT ![g] = Append(@, IndicesIn(n))]
    /\ pc' = [pc EXCEPT ![g] = "IndexError"]
    /\ UNCHANGED out

\* the next next() after a yield: the for loop of the yielded node runs
Resume(g) ==
    /\ pc[g] = "yielded"
    /\ Expand(g)
    /\ pc' = [pc EXCEPT ![g] = "loop"]
    /\ UNCHANGED <<cur, out, popped>>

\* Resume whose for loop ends in IndexError
ResumeRaises(g) ==
    /\ pc[g] = "yielded"
    /\ ExpandRaises(g, IndicesIn(cur[g]))
    /\ UNCHANGED <<cur, out, popped>>

\* line 81 with an empty heap: the generator returns (StopIteration)
Exhaust(g) ==
    /\ pc[g] = "loop"
    /\ pq[g] = EmptyBag
    /\ pc' = [pc EXCEPT ![g] = "done"]
    /\ UNCHANGED <<pq, visited, cur, fresh, out, pushed, popped>>

----------------------------------------------------------------------------
(* Spec: one instance, driven by next() until it is exhausted *)

Init ==
    /\ InputInit(EnumAlphabets)
    /\ descending \in [Gens -> BOOLEAN]
    /\ descending[2] = TRUE
    /\ GenInit
    /\ RangeIdle
    /\ ValidIdle
    /\ ScoreIdle

Next ==
    \/ Start(1) /\ UNCHANGED <<inputVars, rangeVars, validVars, scoreVars>>
    \/ PopYield(1) /\ UNCHANGED <<inputVars, rangeVars, validVars, scoreVars>>
    \/ PopSkip(1) /\ UNCHANGED <<inputVars, rangeVars, validVars, scoreVars>>
    \/ Resume(1) /\ UNCHANGED <<inputVars, rangeVars, validVars, scoreVars>>
    \/ Exhaust(1) /\ UNCHANGED <<inputVars, rangeVars, validVars, scoreVars>>

Spec == Init /\ [][Next]_vars

(* LiveSpec: one instance whose caller keeps calling next(): a step that can
   be taken is taken *)

\* an alphabet whose candidates pass and fail is_valid_sequence, and the
\* alphabet of one symbol, whose only node is the root
LiveAlphabets == {Tup(<<"S", "K">>), Tup(<<"S">>)}

LiveInit ==
    /\ InputInit(LiveAlphabets)
    /\ descending \in [Gens -> BOOLEAN]
    /\ descending[2] = TRUE
    /\ GenInit
    /\ RangeIdle
    /\ ValidIdle
    /\ ScoreIdle

LiveSpec == LiveInit /\ [][Next]_vars /\ WF_vars(Next)

----------------------------------------------------------------------------
(* RangeSpec: get_pssm_range *)

RangeAlphabets ==
    {Tup(<<"A", "S">>), Tup(<<"S", "K">>), Tup(<<"S", "C">>),
     Tup(<<"C", "K">>), Tup(<<"A", "K">>), Tup(<<"S">>)}

\* where get_pssm_range is after a step of next(): p is the generator's
\* position after the step.  A generator that returns makes next() raise
\* StopIteration, which get_pssm_range does not catch.
AfterNext_IgnoreDone(p, here, there) ==
    IF p \in {"yielded", "done"} THEN there ELSE here

AfterNext(p, here, there) ==
    IF p = "yielded" THEN there
    ELSE IF p = "done" THEN "StopIteration"
    ELSE here

\* line 118: max_seq = next(greedy_pssm_generator(pssm, aminoacids)), then
\* line 119: min_seq = next(greedy_pssm_generator(pssm, aminoacids,
\* descending=False)): the instance whose next() call is running
RangeCalls(g) == rpc = (IF g = 1 THEN "max" ELSE "min")

\* what a step of that next() call leaves get_pssm_range with
RangeAfter(g) ==
    /\ rpc' = IF g = 1 THEN AfterNext(pc'[1], "max", "min")
                        ELSE AfterNext(pc'[2], "min", "score")
    /\ UNCHANGED <<rres, inputVars, validVars, scoreVars>>

\* lines 120-121: the pair of scores, the minimum scored first
RangeReturn ==
    /\ rpc = "score"
    /\ LET min_seq == Last(out[2])
           max_seq == Last(out[1])
       IN  IF ScoreRaises(min_seq) # "none"
           THEN rpc' = ScoreRaises(min_seq) /\ rres' = rres
           ELSE IF ScoreRaises(max_seq) # "none"
           THEN rpc' = ScoreRaises(max_seq) /\ rres' = rres
           ELSE /\ rpc' = "returned"
                /\ rres' = <<get_sequence_score(min_seq), get_sequence_score(max_seq)>>
    /\ UNCHANGED <<inputVars, genVars, validVars, scoreVars>>

RangeInit ==
    /\ InputInit(RangeAlphabets)
    /\ descending = [g \in Gens |-> g = 1]
    /\ GenInit
    /\ rpc = "max" /\ rres = <<>>
    /\ ValidIdle
    /\ ScoreIdle

RangeNext ==
    \/ \E g \in Gens : RangeCalls(g) /\ Start(g) /\ RangeAfter(g)
    \/ \E g \in Gens : RangeCalls(g) /\ PopYield(g) /\ RangeAfter(g)
    \/ \E g \in Gens : RangeCalls(g) /\ PopSkip(g) /\ RangeAfter(g)
    \/ \E g \in Gens : RangeCalls(g) /\ Exhaust(g) /\ RangeAfter(g)
    \/ RangeReturn

RangeSpec == RangeInit /\ [][RangeNext]_vars

----------------------------------------------------------------------------
(* PairSpec: two instances over the same matrix and alphabet, their next()
   steps interleaved, each popping at most MaxPops nodes *)

PairAlphabets ==
    {Tup(<<"A", "S">>), Tup(<<"S", "K">>), Tup(<<"S">>), Tup(<<"A", "R", "S">>)}

PairInit ==
    /\ InputInit(PairAlphabets)
    /\ descending \in [Gens -> BOOLEAN]
    /\ GenInit
    /\ RangeIdle
    /\ ValidIdle
    /\ ScoreIdle

PairNext ==
    \/ \E g \in Gens :
         Start(g) /\ UNCHANGED <<inputVars, rangeVars, validVars, scoreVars>>
    \/ \E g \in Gens :
         /\ Len(popped[g]) < MaxPops
         /\ PopYield(g) /\ UNCHANGED <<inputVars, rangeVars, validVars, scoreVars>>
    \/ \E g \in Gens :
         /\ Len(popped[g]) < MaxPops
         /\ PopSkip(g) /\ UNCHANGED <<inputVars, rangeVars, validVars, scoreVars>>
    \/ \E g \in Gens :
         Resume(g) /\ UNCHANGED <<inputVars, rangeVars, validVars, scoreVars>>
    \/ \E g \in Gens :
         Exhaust(g) /\ UNCHANGED <<inputVars, rangeVars, validVars, scoreVars>>

PairSpec == PairInit /\ [][PairNext]_vars

----------------------------------------------------------------------------
(* ValidSpec: is_valid_sequence applied to one sequence *)

Symbols == {"A", "C", "K", "R", "S"}

BaseSequence == Tup(<<"A", "A", "A", "A", "A", "S", "A", "A", "A", "A">>)

\* the base sequence with the symbols f at the positions P
EditOf(P, f) ==
    [i \in DOMAIN BaseSequence |-> IF i \in P THEN f[i] ELSE BaseSequence[i]]

\* s cut or cyclically extended to n symbols
Resized(s, n) == [i \in 0 .. (n - 1) |-> s[i % TLen(s)]]

\* sequences of ten symbols within MaxEdits edits of the base, and sequences of
\* 0 .. 11 symbols within one edit of it
ValidInit ==
    /\ pssm = <<>> /\ aminoacids = <<>> /\ argsort = <<>>
    /\ descending = [g \in Gens |-> TRUE]
    /\ GenInit
    /\ RangeIdle
    /\ \E P \in SUBSET (DOMAIN BaseSequence) :
         /\ Cardinality(P) <= MaxEdits
         /\ \E f \in [P -> Symbols], n \in 0 .. (ValidLen + 1) :
              /\ n = ValidLen \/ Cardinality(P) <= 1
              /\ sequence = Resized(EditOf(P, f), n)
    /\ verdict = <<>>
    /\ ScoreIdle

\* the call is_valid_sequence(sequence)
Validate ==
    /\ verdict = <<>>
    /\ verdict' = <<is_valid_sequence(sequence)>>
    /\ UNCHANGED <<inputVars, genVars, rangeVars, sequence, scoreVars>>

ValidNext == Validate

ValidSpec == ValidInit /\ [][ValidNext]_vars

----------------------------------------------------------------------------
(* ShapeSpec: one call with a mismatched shape: either greedy_pssm_generator
   with an alphabet one symbol shorter or longer than the matrix has rows,
   driven by next() until it ends, or get_sequence_score with a sequence of
   0 .. c_size + 1 symbols *)

ShapeAlphabets == {Tup(<<"A", "S">>), Tup(<<"K", "A">>)}

\* a without its last symbol, and a with one more symbol
Shorter(a) == [i \in 0 .. (TLen(a) - 2) |-> a[i]]
Longer(a) == [i \in 0 .. TLen(a) |-> IF i < TLen(a) THEN a[i] ELSE "R"]

\* the sequences scored: the alphabet repeated, and the base sequence, cut or
\* extended to n symbols
ScoreArgs == {Resized(t, n) : t \in {aminoacids, BaseSequence}, n \in 0 .. (c_size + 1)}

\* the call get_sequence_score(pssm, aminoacids, sequence)
Score ==
    /\ scored = <<"called">>
    /\ scored' = IF ScoreRaises(sequence) # "none"
                 THEN <<ScoreRaises(sequence)>>
                 ELSE <<"returned", get_sequence_score(sequence)>>
    /\ UNCHANGED <<inputVars, genVars, rangeVars, validVars>>

\* the call under way is the generator's
GeneratorCalled == scored = <<>>

ShapeInit ==
    /\ \E a \in ShapeAlphabets :
         /\ pssm \in Matrices(TLen(a))
         /\ \/ /\ aminoacids \in {Shorter(a), Longer(a)}
               /\ descending \in [Gens -> BOOLEAN]
               /\ descending[2] = TRUE
               /\ sequence = <<>>
               /\ scored = <<>>
            \/ /\ aminoacids \in {a, Shorter(a), Longer(a)}
               /\ descending = [g \in Gens |-> TRUE]
               /\ sequence \in ScoreArgs
               /\ scored = <<"called">>
    /\ argsort \in Argsorts(pssm)
    /\ GenInit
    /\ RangeIdle
    /\ verdict = <<>>

ShapeNext ==
    \/ GeneratorCalled /\ Start(1)
         /\ UNCHANGED <<inputVars, rangeVars, validVars, scoreVars>>
    \/ GeneratorCalled /\ StartRaises(1)
         /\ UNCHANGED <<inputVars, rangeVars, validVars, scoreVars>>
    \/ PopYield(1) /\ UNCHANGED <<inputVars, rangeVars, validVars, scoreVars>>
    \/ PopSkip(1) /\ UNCHANGED <<inputVars, rangeVars, validVars, scoreVars>>
    \/ PopSkipRaises(1) /\ UNCHANGED <<inputVars, rangeVars, validVars, scoreVars>>
    \/ Resume(1) /\ UNCHANGED <<inputVars, rangeVars, validVars, scoreVars>>
    \/ ResumeRaises(1) /\ UNCHANGED <<inputVars, rangeVars, validVars, scoreVars>>
    \/ Exhaust(1) /\ UNCHANGED <<inputVars, rangeVars, validVars, scoreVars>>
    \/ Score

ShapeSpec == ShapeInit /\ [][ShapeNext]_vars

----------------------------------------------------------------------------
(* EqualSpec: one instance over a matrix whose entries are all equal, so
   that argsort may order the columns either way; at most MaxPops pops *)

\* the exponents of the common entry: 0.5, 1.0 and 2.0
EqualExps == {0 - 1, 0, 1}

EqualAlphabets == {Tup(<<"A", "S">>), Tup(<<"K", "S">>), Tup(<<"S">>)}

EqualInit ==
    /\ aminoacids \in EqualAlphabets
    /\ pssm \in {[i \in DOMAIN aminoacids |-> [c \in Cols |-> e]] : e \in EqualExps}
    /\ argsort \in Argsorts(pssm)
    /\ descending \in [Gens -> BOOLEAN]
    /\ descending[2] = TRUE
    /\ GenInit
    /\ RangeIdle
    /\ ValidIdle
    /\ ScoreIdle

EqualNext ==
    \/ Start(1) /\ UNCHANGED <<inputVars, rangeVars, validVars, scoreVars>>
    \/ /\ Len(popped[1]) < MaxPops
       /\ PopYield(1) /\ UNCHANGED <<inputVars, rangeVars, validVars, scoreVars>>
    \/ /\ Len(popped[1]) < MaxPops
       /\ PopSkip(1) /\ UNCHANGED <<inputVars, rangeVars, validVars, scoreVars>>
    \/ Resume(1) /\ UNCHANGED <<inputVars, rangeVars, validVars, scoreVars>>
    \/ Exhaust(1) /\ UNCHANGED <<inputVars, rangeVars, validVars, scoreVars>>

EqualSpec == EqualInit /\ [][EqualNext]_vars

----------------------------------------------------------------------------
(* Claims about one full enumeration (Spec) *)

\* the raw score stored with heap entry n of instance g
StoredScore(g, n) == IF descending[g] THEN 0 - ScoreIn(n) ELSE ScoreIn(n)

\* every column index vector with rank 0 in the center column
AllNodes == {v \in [Cols -> Rows] : v[Center] = 0}

\* how often index vector v was popped by instance g
PopCount(g, v) == Cardinality({i \in 1 .. Len(popped[g]) : popped[g][i] = v})

\* the index vectors whose expansion pushes v: one non-center rank less
Parents(v) ==
    {[v EXCEPT ![c] = @ - 1] : c \in {d \in Cols : d # Center /\ v[d] > 0}}

\* the in-range neighbors of index vector v
AllNeighbors(v) ==
    {[v EXCEPT ![c] = @ + 1] : c \in {d \in Cols : d # Center /\ v[d] + 1 < r_size}}

C2_Complete ==
    pc[1] = "done" =>
        /\ \A v \in AllNodes : PopCount(1, v) = 1
        /\ \A s \in [Cols -> {aminoacids[r] : r \in DOMAIN aminoacids}] :
             is_valid_sequence(s) => \E i \in 1 .. Len(out[1]) : out[1][i] = s

\* C4: the score stored with every heap entry, un-negated, is the Scorer score
\* of the entry's candidate
C4_RoundTrip ==
    Contains(aminoacids, "S") =>
        \A n \in BagToSet(pq[1]) : StoredScore(1, n) = get_sequence_score(SeqIn(n))

\* the index vectors pushed by the step before: the root after Start, the
\* neighbors pushed by the last expansion after it
JustPushed(g) ==
    IF pc[g] = "created" THEN {}
    ELSE IF popped[g] = <<>> THEN {initial_indices}
    ELSE fresh[g]

\* C5: no column index vector has been pushed more than once, and none popped
\* more than once.  The history only grows: a vector pushed twice has two copies
\* in the state after its second push, and a vector popped twice is the last
\* pop in the state after its second pop.
C5_NoDuplicates ==
    /\ \A v \in JustPushed(1) : CopiesIn(v, pushed[1]) = 1
    /\ \A i \in 1 .. (Len(popped[1]) - 1) : popped[1][i] # Last(popped[1])

\* C5 witness: a pushed vector is the neighbor of two nodes both expanded
C5_Witness ==
    /\ pc[1] = "loop"
    /\ \E v \in BagToSet(pushed[1]) :
         Cardinality({u \in Parents(v) : PopCount(1, u) = 1}) >= 2

\* C8: a step that pops a node whose candidate passes is_valid_sequence yields
\* that candidate in the same step and suspends before any other pop; a step
\* that pops a node whose candidate fails yields nothing and leaves every
\* neighbor of the node visited; no other step yields
C8_ValidatedOutput ==
    [][ /\ popped'[1] # popped[1] =>
            /\ popped'[1] = Append(popped[1], IndicesIn(cur'[1]))
            /\ IF is_valid_sequence(SeqIn(cur'[1]))
               THEN /\ out'[1] = Append(out[1], SeqIn(cur'[1]))
                    /\ pc'[1] = "yielded"
               ELSE /\ out'[1] = out[1]
                    /\ AllNeighbors(IndicesIn(cur'[1])) \subseteq visited'[1]
        /\ popped'[1] = popped[1] => out'[1] = out[1]
        /\ pc[1] = "yielded" => popped'[1] = popped[1]
      ]_vars

\* C8 witness: after a valid and an invalid pop, the yielded strings are fewer
\* than the popped nodes and the last one popped was not yielded
C8_Witness ==
    /\ pc[1] = "loop" /\ Len(out[1]) >= 1 /\ Len(popped[1]) > Len(out[1])
    /\ ~is_valid_sequence(SeqIn(cur[1]))
    /\ Last(out[1]) # SeqIn(cur[1])

\* C9, as claimed: every symbol of every queued and every yielded sequence is in
\* the alphabet
C9_SymbolsInAlphabet ==
    /\ \A n \in BagToSet(pq[1]) : \A c \in DOMAIN SeqIn(n) :
         Contains(aminoacids, SeqIn(n)[c])
    /\ \A i \in 1 .. Len(out[1]) : \A c \in DOMAIN out[1][i] :
         Contains(aminoacids, out[1][i][c])

\* C9, amended: every queued and every yielded sequence has c_size symbols,
\* "S" at the center and alphabet symbols elsewhere; with "S" in the alphabet
\* the Scorer finds every symbol of a yielded candidate.  Entries enter the
\* heap and candidates enter out one step at a time, so the entries just pushed
\* and the candidate yielded last are every one of them once.
C9_SymbolsInAlphabetOrS ==
    /\ \A n \in {m \in BagToSet(pq[1]) : IndicesIn(m) \in JustPushed(1)} :
         /\ DOMAIN SeqIn(n) = Cols
         /\ SeqIn(n)[Center] = "S"
         /\ \A c \in Cols \ {Center} : Contains(aminoacids, SeqIn(n)[c])
    /\ Len(out[1]) >= 1 =>
         /\ DOMAIN Last(out[1]) = Cols
         /\ Last(out[1])[Center] = "S"
         /\ \A c \in Cols \ {Center} : Contains(aminoacids, Last(out[1])[c])
         /\ Contains(aminoacids, "S") =>
              ScoreRaises(Last(out[1])) = "none"

\* C9 witness: an alphabet with "S", a candidate yielded and entries queued
C9_Witness ==
    /\ Contains(aminoacids, "S") /\ Len(out[1]) >= 2
    /\ BagCardinality(pq[1]) >= 2
    /\ ScoreRaises(Last(out[1])) = "none"

\* C13: once seeded, the visited set is the set of the column index vectors
\* pushed so far: after seeding it holds the all-zero-rank root and nothing else
C13_VisitedIsPushed ==
    pc[1] # "created" =>
        /\ visited[1] = BagToSet(pushed[1])
        /\ popped[1] = <<>> => visited[1] = {initial_indices}

\* the columns in which index vectors v and w differ
DiffCols(v, w) == {c \in Cols : v[c] # w[c]}

\* C14: every column index vector pushed has c_size ranks, each in 0 .. r_size-1
\* and rank 0 at the center; a vector pushed by the expansion of a popped node
\* differs from that node in exactly one column, not the center, by +1; one
\* expansion pushes at most c_size - 1 vectors.  Every vector pushed is in
\* JustPushed in the state after its push, and after an expansion the
\* generator is at the loop with the expanded node in cur.
C14_NodeShape ==
    /\ \A v \in JustPushed(1) :
         /\ DOMAIN v = Cols
         /\ \A c \in Cols : v[c] >= 0 /\ v[c] < r_size
         /\ v[Center] = 0
    /\ (pc[1] = "loop" /\ popped[1] # <<>>) =>
         /\ \A v \in fresh[1] :
              /\ Cardinality(DiffCols(v, IndicesIn(cur[1]))) = 1
              /\ \A c \in DiffCols(v, IndicesIn(cur[1])) :
                   c # Center /\ v[c] = IndicesIn(cur[1])[c] + 1
         /\ Cardinality(fresh[1]) <= c_size - 1

\* C14 witness: the third or a later expansion pushed some neighbors, but not
\* c_size - 1 of them, after the root's expansion pushed c_size - 1
C14_Witness ==
    /\ pc[1] = "loop" /\ Len(popped[1]) >= 3
    /\ fresh[1] # {} /\ Cardinality(fresh[1]) < c_size - 1
    /\ Cardinality({v \in BagToSet(pushed[1]) :
                       Cardinality(DiffCols(v, initial_indices)) = 1}) = c_size - 1

\* the order the claim names: score, then resolved sequence, then column
\* index vector
LexBefore(n, m) ==
    \/ n[1] < m[1]
    \/ n[1] = m[1] /\ SeqLess(n[2], m[2])
    \/ n[1] = m[1] /\ n[2] = m[2] /\ IdxLess(n[3], m[3])

\* C16: the node a step pops was in the queue and comes before every other
\* queued node in the order (score, sequence, index vector); no key is queued
\* twice (every entry just pushed has one copy in the queue, or none once
\* popped)
C16_PopOrder ==
    /\ [](\A v \in JustPushed(1) : CopiesIn(NodeOf(descending[1], v), pq[1]) <= 1)
    /\ [][popped'[1] # popped[1] =>
            /\ cur'[1] \in BagToSet(pq[1])
            /\ IndicesIn(cur'[1]) = Last(popped'[1])
            /\ \A m \in BagToSet(pq[1]) :
                 m # cur'[1] => LexBefore(cur'[1], m)
         ]_vars

\* C16 witness: the node popped last left behind a queued node of the same score
\* and a greater sequence
C16_Witness ==
    /\ pc[1] = "yielded"
    /\ \E m \in BagToSet(pq[1]) :
         ScoreIn(m) = ScoreIn(cur[1]) /\ SeqLess(SeqIn(cur[1]), SeqIn(m))

\* no symbol is in two rows of the alphabet
DistinctSymbols ==
    \A i, j \in DOMAIN aminoacids : aminoacids[i] = aminoacids[j] => i = j

\* C18: over an alphabet of distinct symbols no candidate is yielded twice.
\* Every yield suspends the generator with the candidate last in out, so the
\* last candidate against the earlier ones at each suspension is every pair.
C18_NoRepeatedCandidate ==
    (DistinctSymbols /\ pc[1] = "yielded") =>
        \A i \in 1 .. (Len(out[1]) - 1) : out[1][i] # Last(out[1])

\* C18 witness: the candidate yielded last differs from an earlier one in one
\* symbol only
C18_Witness ==
    /\ DistinctSymbols /\ pc[1] = "yielded" /\ Len(out[1]) >= 3
    /\ \E i \in 1 .. (Len(out[1]) - 1) :
         Cardinality({c \in Cols : out[1][i][c] # Last(out[1])[c]}) = 1

----------------------------------------------------------------------------
(* Claims about get_pssm_range (RangeSpec) *)

RECURSIVE Pow(_, _)
Pow(b, e) == IF e = 0 THEN 1 ELSE b * Pow(b, e - 1)

\* the sequences of c_size alphabet symbols
AlphabetSequences == [Cols -> {aminoacids[r] : r \in DOMAIN aminoacids}]

\* C3: the pair get_pssm_range returns bounds the Scorer score of every
\* sequence over the alphabet that passes is_valid_sequence
C3_RangeBounds ==
    rpc = "returned" =>
        \A s \in AlphabetSequences :
            is_valid_sequence(s) =>
                rres[1] <= get_sequence_score(s) /\ get_sequence_score(s) <= rres[2]

\* C10: an instance exhausted without a yield ends get_pssm_range in
\* StopIteration with no pair returned; a pair returned is the scores of two
\* yielded candidates that pass is_valid_sequence; each instance pops at most
\* r_size^(c_size-1) nodes and get_pssm_range can step until it has ended
C10_DegenerateRaises ==
    /\ \A g \in Gens :
         (pc[g] = "done" /\ out[g] = <<>>) => (rpc = "StopIteration" /\ rres = <<>>)
    /\ rpc = "returned" =>
         /\ \A g \in Gens : pc[g] = "yielded" /\ Len(out[g]) = 1
                              /\ is_valid_sequence(out[g][1])
         /\ rres = <<get_sequence_score(out[2][1]), get_sequence_score(out[1][1])>>
    /\ rpc # "returned" => rres = <<>>
    /\ \A g \in Gens : Len(popped[g]) <= Pow(r_size, c_size - 1)
    /\ rpc \in {"max", "min", "score"} => ENABLED RangeNext

\* C10 witness: the descending instance popped every node it reached, yielded
\* none, and get_pssm_range ended in StopIteration
C10_Witness ==
    /\ rpc = "StopIteration" /\ pc[1] = "done" /\ out[1] = <<>>
    /\ Len(popped[1]) > c_size

----------------------------------------------------------------------------
(* Claims about two instances (PairSpec) *)

IsPrefix(s, t) == Len(s) <= Len(t) /\ \A i \in 1 .. Len(s) : s[i] = t[i]

\* C6: two instances with the same matrix, alphabet and direction yield the same
\* candidates in the same order however far each has run: of their outputs, and
\* of their pop orders, one is a prefix of the other
C6_Deterministic ==
    descending[1] = descending[2] =>
        /\ IsPrefix(out[1], out[2]) \/ IsPrefix(out[2], out[1])
        /\ IsPrefix(popped[1], popped[2]) \/ IsPrefix(popped[2], popped[1])

\* C6 witness: same direction, both instances have yielded the same three
\* candidates
C6_Witness ==
    /\ descending[1] = descending[2]
    /\ Len(out[1]) >= 3 /\ out[1] = out[2]

\* an instance run alone in direction desc: its queue, visited set, yielded
\* candidates and popped vectors once seeded, and after one more pop with its
\* expansion
SoloSeeded(desc) ==
    [pq |-> SetToBag({NodeOf(desc, initial_indices)}),
     visited |-> VisitedSeed(desc), out |-> <<>>, popped |-> <<>>]

SoloPop(desc, st) ==
    LET n == CHOOSE m \in HeapMins(st.pq) : TRUE
        new == Neighbors(st.visited, IndicesIn(n))
    IN  [pq |-> (st.pq (-) SetToBag({n})) (+) SetToBag({NodeOf(desc, i) : i \in new}),
         visited |-> st.visited \cup new,
         out |-> IF is_valid_sequence(SeqIn(n)) THEN Append(st.out, SeqIn(n))
                 ELSE st.out,
         popped |-> Append(st.popped, IndicesIn(n))]

\* the instance run alone, after k pops
RECURSIVE SoloRun(_, _)
SoloRun(desc, k) ==
    IF k = 0 THEN SoloSeeded(desc) ELSE SoloPop(desc, SoloRun(desc, k - 1))

\* what instance g holds, in both states of a step
Untouched(g) ==
    /\ pc'[g] = pc[g] /\ pq'[g] = pq[g] /\ visited'[g] = visited[g]
    /\ cur'[g] = cur[g] /\ fresh'[g] = fresh[g] /\ out'[g] = out[g]
    /\ pushed'[g] = pushed[g] /\ popped'[g] = popped[g]

\* C17: however the steps of two instances are interleaved, each instance has
\* popped the nodes and yielded the candidates it does when run alone for as
\* many pops; a step leaves the matrix, the alphabet and argsort's result alone
\* and touches the queue, visited set and output of one instance only
C17_Independent ==
    /\ [](\A g \in Gens :
            pc[g] # "created" =>
                LET solo == SoloRun(descending[g], Len(popped[g]))
                IN  out[g] = solo.out /\ popped[g] = solo.popped)
    /\ [][ /\ pssm' = pssm /\ aminoacids' = aminoacids /\ argsort' = argsort
           /\ \E g \in Gens : \A h \in Gens \ {g} : Untouched(h)
         ]_vars

\* C17 witness: two instances of opposite directions, each after two pops or
\* more and a yield, with different outputs
C17_Witness ==
    /\ descending[1] # descending[2]
    /\ \A g \in Gens : Len(popped[g]) >= 2 /\ Len(out[g]) >= 1
    /\ out[1] # out[2]

----------------------------------------------------------------------------
(* Claims about is_valid_sequence (ValidSpec) *)

KorR(s, positions) == \E i \in positions : s[i] \in {"K", "R"}

\* C7: for a sequence of ten symbols is_valid_sequence returns False exactly when
\* it holds "C", or index 5 is not "S", or "K" is at index 4 or 6, or "K" or "R"
\* is in 0..4 and in 6..9; for any other length it returns False
C7_ValidityPredicate ==
    verdict # <<>> =>
        IF TLen(sequence) = ValidLen
        THEN (verdict[1] = FALSE) <=>
                \/ \E i \in 0 .. 9 : sequence[i] = "C"
                \/ sequence[5] # "S"
                \/ sequence[4] = "K" \/ sequence[6] = "K"
                \/ KorR(sequence, 0 .. 4) /\ KorR(sequence, 6 .. 9)
        ELSE verdict[1] = FALSE

\* C7 witness: ten symbols rejected only for "K" or "R" on both sides
C7_Witness ==
    /\ verdict = <<FALSE>> /\ TLen(sequence) = ValidLen
    /\ \A i \in 0 .. 9 : sequence[i] # "C"
    /\ sequence[5] = "S" /\ sequence[4] # "K" /\ sequence[6] # "K"
    /\ KorR(sequence, 0 .. 4) /\ KorR(sequence, 6 .. 9)

----------------------------------------------------------------------------
(* Claims about mismatched shapes (ShapeSpec) *)

\* C11: get_sequence_score on a sequence of other than c_size symbols ends in
\* an exception; greedy_pssm_generator with an alphabet of other than r_size
\* symbols ends its first next() in an exception, with nothing yielded, nothing
\* queued and nothing visited
C11_FailFast ==
    /\ (scored \notin {<<>>, <<"called">>} /\ TLen(sequence) # c_size) =>
         scored[1] \in {"IndexError", "ValueError"}
    /\ (GeneratorCalled /\ TLen(aminoacids) # r_size /\ pc[1] # "created") =>
         /\ pc[1] = "IndexError"
         /\ out[1] = <<>> /\ popped[1] = <<>>
         /\ pq[1] = EmptyBag /\ visited[1] = {}

----------------------------------------------------------------------------
(* Claims about the all-equal matrix (EqualSpec) *)

\* C12: over the all-equal matrix with the alphabet "A", "S", in either
\* direction, the first node popped is the all-zero-rank root, its candidate
\* passes is_valid_sequence and is yielded by that pop, and every candidate
\* yielded scores c_size times the exponent of the common entry
C12_AllEqual ==
    aminoacids = Tup(<<"A", "S">>) =>
        /\ Len(popped[1]) >= 1 =>
             /\ popped[1][1] = initial_indices
             /\ Len(out[1]) >= 1
             /\ out[1][1] = SeqOf(RowsOf(descending[1], initial_indices))
             /\ is_valid_sequence(out[1][1])
        /\ \A i \in 1 .. Len(out[1]) :
             get_sequence_score(out[1][i]) = c_size * pssm[0][0]

\* C12 witness: entries 0.5, ascending, the root's candidate was yielded with
\* score -10 and another candidate after it
C12_Witness ==
    /\ aminoacids = Tup(<<"A", "S">>) /\ pssm[0][0] = 0 - 1 /\ ~descending[1]
    /\ Len(out[1]) >= 2 /\ popped[1][1] = initial_indices
    /\ get_sequence_score(out[1][1]) = 0 - 10

----------------------------------------------------------------------------
(* Claims about termination (LiveSpec) *)

\* C15: an instance never pops more than r_size^(c_size-1) nodes; when it has
\* ended its queue is empty and no further step yields anything; and a caller
\* that keeps calling next() reaches the end
C15_Terminates ==
    /\ [](Len(popped[1]) <= Pow(r_size, c_size - 1))
    /\ [](pc[1] = "done" => (pq[1] = EmptyBag /\ ~ENABLED Next))
    /\ <>(pc[1] = "done")

\* C15 witness: over two rows, the instance has ended after more than half of
\* the r_size^(c_size-1) pops
C15_Witness ==
    /\ r_size >= 2 /\ pc[1] = "done" /\ pq[1] = EmptyBag
    /\ 2 * Len(popped[1]) > Pow(r_size, c_size - 1)

====
